---------------------------- MODULE Spec2Model ----------------------------
(***************************************************************************)
(* A model of sensor_visualizer.py: the serial reader (SerialWorker.start, *)
(* stop, _cleanup), its line parser (_parse_line_multi), the rate limit of *)
(* the read loop, and the time series buffer (TimeSeriesTab.addSample).    *)
(*                                                                         *)
(* Text is a sequence of one-character strings.  Bytes on the wire are the *)
(* same one-character strings for ASCII, plus the two bytes "C3" and "A9"  *)
(* of the UTF-8 encoding of one non-ASCII character, written "U+E9" once   *)
(* decoded.  Time is counted in units of 10 ms.                            *)
(***************************************************************************)
EXTENDS Integers, Sequences, FiniteSets, TLC

VARIABLES
    \* ---- SerialWorker, the worker thread
    wpc,            \* position of the worker thread inside start()
    running,        \* self._running
    serialRef,      \* self._serial: "None" or "port"
    portOpen,       \* whether the serial.Serial object is open
    buffer,         \* the local text accumulator of start()
    lastUpdate,     \* self._last_update
    lastBySensor,   \* self._last_by_sensor
    \* ---- the environment of the worker
    wire,           \* bytes the device has still to deliver
    clock,          \* the last value time.time() returned
    \* ---- the GUI thread
    mpc,            \* position of the GUI thread inside stop()
    stopCalls,      \* how many times stop() has been entered
    \* ---- what the worker did (signals emitted, calls made)
    emitted,        \* sampleReceived signals, in emission order
    statusLog,      \* statusChanged signals, in emission order
    finishedCount,  \* finished signals
    closeCalls,     \* calls of self._serial.close()
    processed,      \* one record per line handed to _parse_line_multi
    consumed,       \* all bytes read so far
    failed,         \* "no", "open" or "read": the failure start() ran into
    everRead,       \* whether the read loop was ever entered
    \* ---- _parse_line_multi as a function of its own
    ptext,          \* its argument
    pout,           \* its result
    pstate,         \* "in" before the call, "out" after it
    psrc,           \* how ptext was put together
    \* ---- TimeSeriesTab
    index,          \* self._index
    buffers,        \* self._buffers, one axis array per sensor and axis
    plot,           \* the data last given to the curves of each sensor
    hist            \* the samples appended to each sensor, in order

readerVars == <<wpc, running, serialRef, portOpen, buffer, lastUpdate,
                lastBySensor, wire, clock, mpc, stopCalls, emitted, statusLog,
                finishedCount, closeCalls, processed, consumed, failed, everRead>>
parserVars == <<ptext, pout, pstate, psrc>>
storeVars == <<index, buffers, plot, hist>>
vars == <<readerVars, parserVars, storeVars>>

-----------------------------------------------------------------------------
(* Text primitives: str.strip, str.split, re.split, str.lower, in, startswith *)

LF == "\n"

\* Characters str.strip() and the pattern \s take for white space.
IsSpace(c) == c \in {" ", "\t", "\r", LF}

IsDigit(c) == c \in {"0", "1", "2", "3", "4", "5", "6", "7", "8", "9"}

RECURSIVE lstrip(_)
lstrip(s) ==
    IF s # <<>> /\ IsSpace(Head(s)) THEN lstrip(Tail(s)) ELSE s

RECURSIVE rstrip(_)
rstrip(s) ==
    IF s # <<>> /\ IsSpace(s[Len(s)]) THEN rstrip(SubSeq(s, 1, Len(s) - 1)) ELSE s

strip(s) == rstrip(lstrip(s))

\* s.split(sep) for a one-character sep, and re.split of a character class.
RECURSIVE split(_, _)
split(s, seps) ==
    IF \A i \in 1..Len(s) : s[i] \notin seps
    THEN <<s>>
    ELSE LET i == CHOOSE k \in 1..Len(s) :
                     s[k] \in seps /\ \A j \in 1..(k - 1) : s[j] \notin seps
         IN  <<SubSeq(s, 1, i - 1)>> \o split(SubSeq(s, i + 1, Len(s)), seps)

lowerChar(c) ==
    CASE c = "S" -> "s" [] c = "E" -> "e" [] c = "N" -> "n" [] c = "O" -> "o"
      [] c = "R" -> "r" [] c = "X" -> "x" [] c = "Y" -> "y" [] c = "Z" -> "z"
      [] OTHER -> c

lower(s) == [i \in 1..Len(s) |-> lowerChar(s[i])]

startswith(s, p) == Len(s) >= Len(p) /\ SubSeq(s, 1, Len(p)) = p

contains(s, p) ==
    \E i \in 1..(Len(s) - Len(p) + 1) : SubSeq(s, i, i + Len(p) - 1) = p

endswith(s, p) == Len(s) >= Len(p) /\ SubSeq(s, Len(s) - Len(p) + 1, Len(s)) = p

RECURSIVE SelectNonEmpty(_)
SelectNonEmpty(ss) ==
    IF ss = <<>> THEN <<>>
    ELSE IF Head(ss) = <<>> THEN SelectNonEmpty(Tail(ss))
    ELSE <<Head(ss)>> \o SelectNonEmpty(Tail(ss))

\* [p.strip() for p in s.split(',') if p.strip()]
commaParts(s) ==
    LET raw == split(s, {","})
    IN  SelectNonEmpty([i \in 1..Len(raw) |-> strip(raw[i])])

-----------------------------------------------------------------------------
(* Numbers: int() of a run of digits, float() of a token.  A float is kept *)
(* exactly, as <<m, k>> standing for m / 10^k with no trailing zero in the *)
(* fraction; the tokens of the model are decimal literals: an optional     *)
(* sign, digits, and an optional fraction.                                 *)

digitVal(c) ==
    CASE c = "0" -> 0 [] c = "1" -> 1 [] c = "2" -> 2 [] c = "3" -> 3
      [] c = "4" -> 4 [] c = "5" -> 5 [] c = "6" -> 6 [] c = "7" -> 7
      [] c = "8" -> 8 [] c = "9" -> 9

RECURSIVE int(_)
int(ds) ==
    IF ds = <<>> THEN 0
    ELSE 10 * int(SubSeq(ds, 1, Len(ds) - 1)) + digitVal(ds[Len(ds)])

AllDigits(s) == \A i \in 1..Len(s) : IsDigit(s[i])

unsignedPart(tok) ==
    IF tok # <<>> /\ Head(tok) \in {"-", "+"} THEN Tail(tok) ELSE tok

\* Whether float(tok) returns rather than raises ValueError.
IsFloat(tok) ==
    LET u == unsignedPart(tok)
        ps == split(u, {"."})
    IN  /\ u # <<>>
        /\ Len(ps) <= 2
        /\ \A i \in 1..Len(ps) : AllDigits(ps[i])
        /\ \E i \in 1..Len(ps) : ps[i] # <<>>

RECURSIVE dropTrailingZeros(_)
dropTrailingZeros(ds) ==
    IF ds # <<>> /\ ds[Len(ds)] = "0"
    THEN dropTrailingZeros(SubSeq(ds, 1, Len(ds) - 1))
    ELSE ds

float(tok) ==
    LET u == unsignedPart(tok)
        ps == split(u, {"."})
        frac == IF Len(ps) = 2 THEN dropTrailingZeros(ps[2]) ELSE <<>>
        m == int(ps[1] \o frac)
    IN  <<IF tok # <<>> /\ Head(tok) = "-" THEN 0 - m ELSE m, Len(frac)>>


-----------------------------------------------------------------------------
(* SensorSample and _parse_line_multi                                      *)

NumSensors == 5

SensorSample(x, y, force, z) ==
    [x_mm |-> x, y_mm |-> y, force_g |-> force, z_mm |-> z]

RECURSIVE Pow10(_)
Pow10(n) == IF n = 0 THEN 1 ELSE 10 * Pow10(n - 1)

Max(a, b) == IF a >= b THEN a ELSE b
Min(a, b) == IF a <= b THEN a ELSE b

\* float(parts[3]): the force as the line gives it.
literalForce(f) == <<"literal", f[1], f[2]>>

\* math.sqrt(x*x + y*y + z*z), kept as the exact radicand s / 10^k.
derivedForce(x, y, z) ==
    LET k == 2 * Max(x[2], Max(y[2], z[2]))
        sq(v) == v[1] * v[1] * Pow10(k - 2 * v[2])
    IN  <<"sqrt", sq(x) + sq(y) + sq(z), k>>

\* The try block of lines 139-144 and of lines 167-172, for len(parts) >= 3:
\* the sample in a one-element sequence, or <<>> when a float() raises.
sampleOfParts(parts) ==
    IF ~ (IsFloat(parts[1]) /\ IsFloat(parts[2]) /\ IsFloat(parts[3]))
    THEN <<>>
    ELSE IF Len(parts) >= 4 /\ ~ IsFloat(parts[4]) THEN <<>>
    ELSE LET x == float(parts[1])
             y == float(parts[2])
             z == float(parts[3])
             force == IF Len(parts) >= 4 THEN literalForce(float(parts[4]))
                      ELSE derivedForce(x, y, z)
         IN  <<SensorSample(x, y, force, z)>>

\* max(1, min(5, n)) - 1 with the bounds dropped.
clampIndexUnclamped(n) == n - 1

\* idx = max(1, min(5, int(m.group(1)))) - 1
clampIndex(n) == Max(1, Min(NumSensors, n)) - 1

RECURSIVE digitPrefix(_)
digitPrefix(s) ==
    IF s # <<>> /\ IsDigit(Head(s)) THEN <<Head(s)>> \o digitPrefix(Tail(s))
    ELSE <<>>

\* re.match(r'^\s*sensor\s*(\d+)\s*:\s*(.*)$', seg, re.IGNORECASE)
matchSensor(seg) ==
    LET s0 == lstrip(seg)
        s1 == lstrip(SubSeq(s0, 7, Len(s0)))
        ds == digitPrefix(s1)
        s2 == lstrip(SubSeq(s1, Len(ds) + 1, Len(s1)))
        ok == /\ startswith(lower(s0), <<"s", "e", "n", "s", "o", "r">>)
              /\ ds # <<>>
              /\ s2 # <<>>
              /\ Head(s2) = ":"
    IN  [ok |-> ok,
         group1 |-> IF ok THEN ds ELSE <<>>,
         group2 |-> IF ok THEN lstrip(Tail(s2)) ELSE <<>>]

\* One round of the for loop over the segments, lines 125-144.
parseSegment(seg0) ==
    LET seg == strip(seg0)
        m == matchSensor(seg)
        idx == clampIndex(int(m.group1))
        p0 == strip(m.group2)
        payload == IF endswith(p0, <<",">>) THEN SubSeq(p0, 1, Len(p0) - 1) ELSE p0
        parts == commaParts(payload)
    IN  IF seg = <<>> THEN <<>>
        ELSE IF ~ m.ok THEN <<>>
        ELSE IF Len(parts) < 3 THEN <<>>
        ELSE LET s == sampleOfParts(parts)
             IN  IF s = <<>> THEN <<>> ELSE <<[idx |-> idx, sample |-> s[1]]>>

RECURSIVE parseSegments(_)
parseSegments(segments) ==
    IF segments = <<>> THEN <<>>
    ELSE parseSegment(Head(segments)) \o parseSegments(Tail(segments))

\* The labeled branch, lines 123-145.
parseLabeled(line) == parseSegments(split(line, {";", "|"}))

\* One sensor's group of the flat format, lines 153-160: the sample in a
\* one-element sequence, or <<>> when a float() raises.
flatGroup(parts, cursor) ==
    IF ~ (IsFloat(parts[cursor + 1]) /\ IsFloat(parts[cursor + 2])
          /\ IsFloat(parts[cursor + 3]))
    THEN <<>>
    ELSE IF Len(parts) = 20 /\ ~ IsFloat(parts[cursor + 4]) THEN <<>>
    ELSE LET x == float(parts[cursor + 1])
             y == float(parts[cursor + 2])
             z == float(parts[cursor + 3])
             force == IF Len(parts) = 20
                      THEN literalForce(float(parts[cursor + 4]))
                      ELSE derivedForce(x, y, z)
         IN  <<SensorSample(x, y, force, z)>>

flatWidth(parts) == IF Len(parts) = 20 THEN 4 ELSE 3

\* The walk with "continue" in place of "break": a bad group is skipped.
RECURSIVE flatWalkSkipBad(_, _)
flatWalkSkipBad(parts, sensor_idx) ==
    IF sensor_idx >= NumSensors THEN <<>>
    ELSE LET s == flatGroup(parts, sensor_idx * flatWidth(parts))
         IN  (IF s = <<>> THEN <<>> ELSE <<[idx |-> sensor_idx, sample |-> s[1]]>>)
             \o flatWalkSkipBad(parts, sensor_idx + 1)

\* for sensor_idx in range(5): ... except Exception: break, lines 151-163,
\* from sensor_idx on.  The cursor is 3 or 4 times sensor_idx: it moves by
\* a whole group in every round that does not break.
RECURSIVE flatWalk(_, _)
flatWalk(parts, sensor_idx) ==
    IF sensor_idx >= NumSensors THEN <<>>
    ELSE LET s == flatGroup(parts, sensor_idx * flatWidth(parts))
         IN  IF s = <<>> THEN <<>>
             ELSE <<[idx |-> sensor_idx, sample |-> s[1]]>>
                  \o flatWalk(parts, sensor_idx + 1)

\* The single-sensor fallback, lines 166-173.
parseSingle(parts) ==
    IF Len(parts) < 3 THEN <<>>
    ELSE LET s == sampleOfParts(parts)
         IN  IF s = <<>> THEN <<>> ELSE <<[idx |-> 0, sample |-> s[1]]>>

isHeader(low) == contains(low, <<"x", ",", "y", ",", "z">>) \/ startswith(low, <<"x", ",">>)

isLabeled(low) == contains(low, <<"s", "e", "n", "s", "o", "r">>)

_parse_line_multi(text) ==
    LET line == strip(text)
        low == lower(line)
        parts == commaParts(line)
    IN  IF line = <<>> THEN <<>>
        ELSE IF isHeader(low) THEN <<>>
        ELSE IF isLabeled(low) THEN parseLabeled(line)
        ELSE IF Len(parts) \in {15, 20} THEN flatWalk(parts, 0)
        ELSE parseSingle(parts)

-----------------------------------------------------------------------------
(* The lines _parse_line_multi is applied to.  A line is put together from *)
(* a description (psrc) and the parser sees only the text.                 *)

MaxSegs == 2            \* segments of a labeled line
MaxSensorNumber == 7    \* the largest sensor number written in a label
MaxBad == 2             \* tokens of a flat line that are not plain numbers

RECURSIVE NatToDigits(_)
NatToDigits(n) ==
    LET d == <<"0", "1", "2", "3", "4", "5", "6", "7", "8", "9">>[(n % 10) + 1]
    IN  IF n < 10 THEN <<d>> ELSE NatToDigits(n \div 10) \o <<d>>

RECURSIVE Join(_, _)
Join(ss, sep) ==
    IF ss = <<>> THEN <<>>
    ELSE IF Len(ss) = 1 THEN ss[1]
    ELSE ss[1] \o sep \o Join(Tail(ss), sep)

SeqsUpTo(S, n) == UNION {[1..k -> S] : k \in 0..n}

SensorNumbers == {0, 1, 3, NumSensors, MaxSensorNumber}

Payloads ==
    { <<<<"1">>, <<"2">>, <<"3">>>>,
      <<<<"-", "1", ".", "5">>, <<"2">>, <<"0", ".", "2", "5">>, <<"4", "0">>>>,
      <<<<"1">>, <<"z">>, <<"3">>>>,
      <<<<"1">>, <<"2">>>> }

LabelStyles == {"plain", "tight", "nocolon"}

Segments == [n : SensorNumbers, toks : Payloads]

RenderSegment(seg, style) ==
    CASE style = "plain" ->
            <<"S", "e", "n", "s", "o", "r", " ">> \o NatToDigits(seg.n)
            \o <<":", " ">> \o Join(seg.toks, <<",">>)
      [] style = "tight" ->
            <<" ", "S", "E", "N", "S", "O", "R">> \o NatToDigits(seg.n)
            \o <<" ", ":">> \o Join(seg.toks, <<",", " ">>) \o <<",", " ">>
      [] style = "nocolon" ->
            <<"s", "e", "n", "s", "o", "r", " ">> \o NatToDigits(seg.n)
            \o <<" ">> \o Join(seg.toks, <<",">>)

RenderLabeled(segs, style) ==
    Join([i \in 1..Len(segs) |-> RenderSegment(segs[i], style)],
         IF style = "tight" THEN <<"|">> ELSE <<";", " ">>)

LabeledSources ==
    { [kind |-> "labeled", style |-> st, segs |-> sg, toks |-> <<>>] :
        st \in LabelStyles, sg \in SeqsUpTo(Segments, MaxSegs) }

\* Raw token counts of the flat lines: around the two counts the parser
\* takes for five sensors, and the short lines of the fallback.
FlatCounts == {3, 4, 15, 16, 20, 21}

BadTokens == { <<"z">>, <<"-">>, <<"x">>, <<>> }

\* Token i is the number i, or b at the places of bad; with gap, a blank
\* token (two commas with a space between them) follows the fourth token.
FlatTokens(n, bad, b, gap) ==
    LET base == [i \in 1..n |-> IF i \in bad THEN b ELSE NatToDigits(i)]
        cut == Min(4, n)
    IN  IF gap THEN SubSeq(base, 1, cut) \o << <<" ">> >> \o SubSeq(base, cut + 1, n)
        ELSE base

FlatSourcesOf(n) ==
    { [kind |-> "flat", style |-> "csv", segs |-> <<>>,
       toks |-> FlatTokens(n, bad, b, gap)] :
        bad \in {B \in SUBSET (1..n) : Cardinality(B) <= MaxBad},
        b \in BadTokens, gap \in BOOLEAN }

FlatSources == UNION {FlatSourcesOf(n) : n \in FlatCounts}

Render(src) ==
    IF src.kind = "labeled" THEN RenderLabeled(src.segs, src.style)
    ELSE Join(src.toks, <<",">>)

ReaderIdle ==
    /\ wpc = "off" /\ running = FALSE /\ serialRef = "None" /\ portOpen = FALSE
    /\ buffer = <<>> /\ lastUpdate = 0
    /\ lastBySensor = <<>> /\ wire = <<>> /\ clock = 0 /\ mpc = "off"
    /\ stopCalls = 0 /\ emitted = <<>> /\ statusLog = <<>> /\ finishedCount = 0
    /\ closeCalls = 0 /\ processed = <<>> /\ consumed = <<>> /\ failed = "no"
    /\ everRead = FALSE

StoreIdle ==
    /\ index = 0 /\ buffers = <<>> /\ plot = <<>> /\ hist = <<>>

ParserIdle ==
    /\ ptext = <<>> /\ pout = <<>> /\ pstate = "off" /\ psrc = <<>>

ParserInit ==
    /\ psrc \in LabeledSources \cup FlatSources
    /\ ptext = Render(psrc)
    /\ pout = <<>>
    /\ pstate = "in"
    /\ ReaderIdle
    /\ StoreIdle

\* updates = self._parse_line_multi(text)
ParseLine ==
    /\ pstate = "in"
    /\ pout' = _parse_line_multi(ptext)
    /\ pstate' = "out"
    /\ UNCHANGED <<ptext, psrc, readerVars, storeVars>>

ParserNext == ParseLine

ParserSpec == ParserInit /\ [][ParserNext]_vars

-----------------------------------------------------------------------------
(* Properties of _parse_line_multi                                         *)

\* clamp(n, 1, 5) - 1, as the specification words it.
ClampedIndex(n) == IF n < 1 THEN 0 ELSE IF n > 5 THEN 4 ELSE n - 1

\* A segment whose payload has at least three tokens, the first three (and
\* the fourth, when there is one) plain numbers.
SegmentComplete(seg) ==
    /\ Len(seg.toks) >= 3
    /\ \A i \in 1..Min(Len(seg.toks), 4) : IsFloat(seg.toks[i])

RECURSIVE ExpectedIndices(_)
ExpectedIndices(segs) ==
    IF segs = <<>> THEN <<>>
    ELSE (IF SegmentComplete(Head(segs)) THEN <<ClampedIndex(Head(segs).n)>> ELSE <<>>)
         \o ExpectedIndices(Tail(segs))

IndicesOf(updates) == [i \in 1..Len(updates) |-> updates[i].idx]

\* C7: every update the parser returns has an index in 0..4; a labeled line
\* of N segments yields at most N updates, one per well-formed segment and
\* in segment order, the index of each being clamp(n, 1, 5) - 1 for the
\* sensor number n written in its segment (so Sensor 0 gives index 0 and
\* Sensor 7 index 4).
C7_LabeledIndexRange ==
    pstate = "out" =>
        /\ \A i \in 1..Len(pout) : pout[i].idx \in 0..4
        /\ psrc.kind = "labeled" =>
              /\ Len(pout) <= Len(psrc.segs)
              /\ IndicesOf(pout) =
                    (IF psrc.style = "nocolon" THEN <<>>
                     ELSE ExpectedIndices(psrc.segs))

C7_Witness ==
    /\ pstate = "out"
    /\ psrc.kind = "labeled"
    /\ Len(psrc.segs) = 2
    /\ psrc.segs[1].n = 0
    /\ psrc.segs[2].n = 7
    /\ IndicesOf(pout) = <<0, 4>>

\* The tokens of a flat line as the claim counts them: trimmed, non-empty.
ClaimTokens == SelectNonEmpty([i \in 1..Len(psrc.toks) |-> strip(psrc.toks[i])])

GroupIsNumeric(toks, w, g) ==
    \A i \in ((g - 1) * w + 1)..(g * w) : IsFloat(toks[i])

\* The number of leading groups that hold numbers only.
NumericPrefix(toks, w) ==
    IF \A g \in 1..5 : GroupIsNumeric(toks, w, g) THEN 5
    ELSE (CHOOSE g \in 1..5 :
             /\ ~ GroupIsNumeric(toks, w, g)
             /\ \A h \in 1..(g - 1) : GroupIsNumeric(toks, w, h)) - 1

FlatApplies ==
    /\ pstate = "out"
    /\ psrc.kind = "flat"
    /\ ~ isHeader(lower(strip(ptext)))
    /\ ~ isLabeled(lower(strip(ptext)))
    /\ Len(ClaimTokens) \in {15, 20}

\* C8: a line that is no header and not labeled, with exactly 15 or 20
\* non-empty tokens, yields the updates of sensors 0..j-1 in order, j being
\* the first group of 3 (or 4) tokens that holds a token that is no number,
\* or 5; each update carries the x, y, z of its own group, and nothing is
\* returned for group j or a later one.
C8_FlatPrefixTruncation ==
    FlatApplies =>
        LET toks == ClaimTokens
            w == IF Len(toks) = 20 THEN 4 ELSE 3
            j == NumericPrefix(toks, w)
        IN  /\ Len(pout) = j
            /\ \A k \in 1..j :
                  /\ pout[k].idx = k - 1
                  /\ pout[k].sample.x_mm = float(toks[(k - 1) * w + 1])
                  /\ pout[k].sample.y_mm = float(toks[(k - 1) * w + 2])
                  /\ pout[k].sample.z_mm = float(toks[(k - 1) * w + 3])
                  /\ w = 4 => pout[k].sample.force_g
                                 = literalForce(float(toks[(k - 1) * w + 4]))

C8_Witness ==
    /\ FlatApplies
    /\ Len(ClaimTokens) = 20
    /\ ~ IsFloat(ClaimTokens[12])
    /\ Len(pout) = 2
    /\ Len(psrc.toks) = 21

-----------------------------------------------------------------------------
(* TimeSeriesTab: __init__ (lines 391-401) and addSample (lines 403-423).  *)
(* An axis array is a sequence of _window numbers, position i of numpy at  *)
(* place i + 1.                                                            *)

_window == 3            \* 800 in the source
MaxAppends == 4         \* addSample calls of one run
MaxValue == 2           \* the samples appended carry x in 1..MaxValue

Sensors == 0..(NumSensors - 1)

zeros(n) == [i \in 1..n |-> 0]

\* np.roll(a, -shift)
roll(a, shift) == [i \in 1..Len(a) |-> a[((i - 1 + shift) % Len(a)) + 1]]

StoreSample(v) == SensorSample(v, 0 - v, 0, 10 * v)

StoreInit ==
    /\ index = 0
    /\ buffers = [s \in Sensors |-> [x |-> zeros(_window), y |-> zeros(_window),
                                     z |-> zeros(_window)]]
    /\ plot = [s \in Sensors |-> <<>>]
    /\ hist = [s \in Sensors |-> <<>>]
    /\ ReaderIdle
    /\ ParserIdle

addSample(finger_index, sample) ==
    /\ index < MaxAppends
    /\ IF ~ (0 <= finger_index /\ finger_index < 5)
       THEN UNCHANGED storeVars
       ELSE LET buf == buffers[finger_index]
                idx == index % _window
                new == [x |-> [buf.x EXCEPT ![idx + 1] = sample.x_mm],
                        y |-> [buf.y EXCEPT ![idx + 1] = sample.y_mm],
                        z |-> [buf.z EXCEPT ![idx + 1] = sample.z_mm]]
                shift == (idx + 1) % _window
            IN  /\ buffers' = [buffers EXCEPT ![finger_index] = new]
                /\ index' = index + 1
                /\ plot' = [plot EXCEPT ![finger_index] =
                               [x |-> roll(new.x, shift), y |-> roll(new.y, shift),
                                z |-> roll(new.z, shift)]]
                /\ hist' = [hist EXCEPT ![finger_index] = Append(@, sample)]
    /\ UNCHANGED <<readerVars, parserVars>>

StoreNext ==
    \E finger_index \in -1..NumSensors, v \in 1..MaxValue :
        addSample(finger_index, StoreSample(v))

StoreSpec == StoreInit /\ [][StoreNext]_vars

\* The last _window values of vs, behind as many zeros as are missing.
LastWindow(vs) ==
    IF Len(vs) >= _window THEN SubSeq(vs, Len(vs) - _window + 1, Len(vs))
    ELSE zeros(_window - Len(vs)) \o vs

\* C1: whatever the appends to the other sensors, the read-out of sensor s
\* computed by addSample is the last _window values appended to s, oldest
\* first, behind zeros while fewer than _window were appended.
C1_EvictionOrder ==
    \A s \in Sensors :
        hist[s] # <<>> =>
            /\ plot[s].x = LastWindow([i \in 1..Len(hist[s]) |-> hist[s][i].x_mm])
            /\ plot[s].y = LastWindow([i \in 1..Len(hist[s]) |-> hist[s][i].y_mm])
            /\ plot[s].z = LastWindow([i \in 1..Len(hist[s]) |-> hist[s][i].z_mm])

-----------------------------------------------------------------------------
(* SerialWorker: start (lines 47-89), stop (91-94), _cleanup (96-102), run *)
(* by two threads: the worker thread runs start(), the GUI thread runs     *)
(* stop() from MainWindow.closeEvent (line 486).                           *)

_update_interval == 3   \* 0.03 s
ClockStart == 4         \* time.time() when the thread starts
MaxElapsed == 3         \* time that passes in one run
MaxLines == 2           \* lines the device sends in one run
MaxStops == 2           \* calls of stop() in one run

\* chunk.decode('utf-8', errors='ignore'): "C3" "A9" is one character, a
\* "C3" that no "A9" follows and an "A9" that follows no "C3" are dropped.
RECURSIVE decode(_)
decode(bytes) ==
    IF bytes = <<>> THEN <<>>
    ELSE IF Head(bytes) = "C3"
         THEN IF Len(bytes) >= 2 /\ bytes[2] = "A9"
              THEN <<"U+E9">> \o decode(SubSeq(bytes, 3, Len(bytes)))
              ELSE decode(Tail(bytes))
    ELSE IF Head(bytes) = "A9" THEN decode(Tail(bytes))
    ELSE <<Head(bytes)>> \o decode(Tail(bytes))

\* What the device may send: up to MaxLines lines, each ended by a line
\* feed.
WireLines ==
    { <<" ">>,
      <<"4", ",", "5", ",", "6">>,
      <<"x", ",", "y">>,
      <<"1", ",", "2", ",", "3", "C3", "A9", "\r">>,
      <<"s", "e", "n", "s", "o", "r", "2", ":", "1", ",", "2", ",", "3", "|",
        "s", "e", "n", "s", "o", "r", "1", ":", "4", ",", "5", ",", "6">> }

RECURSIVE Flatten(_)
Flatten(ss) == IF ss = <<>> THEN <<>> ELSE Head(ss) \o Flatten(Tail(ss))

StreamsOf(catalogue) ==
    { Flatten([i \in 1..Len(ls) |-> ls[i] \o <<LF>>]) : ls \in SeqsUpTo(catalogue, MaxLines) }

\* The lines sent while the GUI thread takes part: what stop() does to the
\* worker does not depend on what the lines say.
ShortLines == { <<"1", ",", "2", ",", "3">> }

\* The state once MainWindow.__init__ has returned (lines 434-442, 481):
\* the worker is built (lines 37-45), its thread is started, and start()
\* is queued on it.
ReaderInit(streams) ==
    /\ wpc = "start"
    /\ running = FALSE
    /\ serialRef = "None"
    /\ portOpen = FALSE
    /\ buffer = <<>>
    /\ lastUpdate = 0
    /\ lastBySensor = <<>>
    /\ wire \in streams
    /\ clock = ClockStart
    /\ mpc = "idle"
    /\ stopCalls = 0
    /\ emitted = <<>>
    /\ statusLog = <<>>
    /\ finishedCount = 0
    /\ closeCalls = 0
    /\ processed = <<>>
    /\ consumed = <<>>
    /\ failed = "no"
    /\ everRead = FALSE
    /\ ParserIdle
    /\ StoreIdle

\* ---- the worker thread

\* line 49
W_Begin ==
    /\ wpc = "start"
    /\ running' = TRUE
    /\ wpc' = "open"
    /\ UNCHANGED <<serialRef, portOpen, buffer, lastUpdate, lastBySensor,
                   wire, clock, mpc, stopCalls, emitted, statusLog, finishedCount,
                   closeCalls, processed, consumed, failed, everRead,
                   parserVars, storeVars>>

\* lines 51-53 and 60
W_OpenOk ==
    /\ wpc = "open"
    /\ serialRef' = "port"
    /\ portOpen' = TRUE
    /\ statusLog' = Append(statusLog, "Connected")
    /\ buffer' = <<>>
    /\ wpc' = "loop"
    /\ UNCHANGED <<running, lastUpdate, lastBySensor, wire, clock, mpc,
                   stopCalls, emitted, finishedCount, closeCalls, processed,
                   consumed, failed, everRead,
                   parserVars, storeVars>>

\* serial.Serial(...) raises: lines 54-58
W_OpenFail ==
    /\ wpc = "open"
    /\ statusLog' = Append(statusLog, "ERROR: Could not open")
    /\ running' = FALSE
    /\ finishedCount' = finishedCount + 1
    /\ failed' = "open"
    /\ wpc' = "done"
    /\ UNCHANGED <<serialRef, portOpen, buffer, lastUpdate, lastBySensor,
                   wire, clock, mpc, stopCalls, emitted, closeCalls, processed,
                   consumed, everRead,
                   parserVars, storeVars>>

\* serial.Serial(...) returns and reset_input_buffer() raises: lines 51-52
\* and 54-58.  self._serial is set and the port stays open.
W_ResetFail ==
    /\ wpc = "open"
    /\ serialRef' = "port"
    /\ portOpen' = TRUE
    /\ statusLog' = Append(statusLog, "ERROR: Could not open")
    /\ running' = FALSE
    /\ finishedCount' = finishedCount + 1
    /\ failed' = "open"
    /\ wpc' = "done"
    /\ UNCHANGED <<buffer, lastUpdate, lastBySensor, wire, clock, mpc,
                   stopCalls, emitted, closeCalls, processed, consumed, everRead,
                   parserVars, storeVars>>

\* line 61
W_LoopCheck ==
    /\ wpc = "loop"
    /\ IF running
       THEN wpc' = "read" /\ everRead' = TRUE
       ELSE wpc' = "cleanup" /\ UNCHANGED everRead
    /\ UNCHANGED <<running, serialRef, portOpen, buffer, lastUpdate,
                   lastBySensor, wire, clock, mpc, stopCalls, emitted, statusLog,
                   finishedCount, closeCalls, processed, consumed, failed,
                   parserVars, storeVars>>

\* Where the except clause of the read loop goes on: "break", line 87.
afterReadErrorRetry == "loop"

afterReadError == "cleanup"

\* The read of line 64 raises (self._serial is None, the port is closed, or
\* the device fails): lines 85-87.
W_ReadFail ==
    /\ wpc = "read"
    /\ statusLog' = Append(statusLog, "Serial read error")
    /\ failed' = "read"
    /\ wpc' = afterReadError
    /\ UNCHANGED <<running, serialRef, portOpen, buffer, lastUpdate,
                   lastBySensor, wire, clock, mpc, stopCalls, emitted,
                   finishedCount, closeCalls, processed, consumed, everRead,
                   parserVars, storeVars>>

\* The rate limit with ">" in place of ">=".
rateAllowsStrict(now, last) == now - last > _update_interval

\* line 80
rateAllows(now, last) == now - last >= _update_interval

\* The signals of lines 81-83 with the first update left out.
emitUpdatesButFirst(updates) == Tail(updates)

\* lines 81-83: one sampleReceived per update, in the order of the list.
emitUpdates(updates) == updates

\* self._last_update = now moved out of the if of line 80.
nextLastUpdateAlways(now, last, forward) == now

\* line 84, under the if of line 80
nextLastUpdate(now, last, forward) == IF forward THEN now ELSE last

\* self._last_by_sensor[idx] = sample for each update, line 82
RECURSIVE storeLast(_, _)
storeLast(last, updates) ==
    IF updates = <<>> THEN last
    ELSE storeLast([i \in DOMAIN last \cup {Head(updates).idx} |->
                        IF i = Head(updates).idx THEN Head(updates).sample
                        ELSE last[i]],
                   Tail(updates))

\* One round of the for loop, lines 71-84, on what the loop reads and
\* writes; now is what time.time() returns, should line 79 be reached.
processLine(st, raw, now) ==
    LET text == strip(raw)
        updates == _parse_line_multi(text)
        forward == rateAllows(now, st.lastUpdate)
    IN  IF text = <<>> THEN st
        ELSE IF updates = <<>>
        THEN [st EXCEPT !.processed = Append(@,
                 [text |-> text, updates |-> updates, now |-> st.clock,
                  last |-> st.lastUpdate, forwarded |-> FALSE])]
        ELSE [clock |-> now,
              emitted |-> IF forward THEN st.emitted \o emitUpdates(updates)
                          ELSE st.emitted,
              lastBySensor |-> IF forward THEN storeLast(st.lastBySensor, updates)
                               ELSE st.lastBySensor,
              lastUpdate |-> nextLastUpdate(now, st.lastUpdate, forward),
              processed |-> Append(st.processed,
                 [text |-> text, updates |-> updates, now |-> now,
                  last |-> st.lastUpdate, forwarded |-> forward])]

\* The for loop of lines 71-84 over lines: every outcome it can have, the
\* clock moving on by any amount, or not at all, before each time.time().
RECURSIVE processLines(_, _)
processLines(st, lines) ==
    IF lines = <<>> THEN {st}
    ELSE UNION { processLines(processLine(st, Head(lines), now), Tail(lines)) :
                    now \in st.clock..(ClockStart + MaxElapsed) }

\* One round of the while loop past its test, lines 64-84: n bytes arrive
\* within the timeout (none: n = 0) and the complete lines are worked off.
\* The for loop reads and writes nothing the GUI thread touches, so it is
\* taken in one step with the read.
W_Read ==
    /\ wpc = "read"
    /\ serialRef = "port"
    /\ portOpen
    /\ \E n \in 0..Len(wire) :
          LET bytes == SubSeq(wire, 1, n)
              chunk == decode(bytes)
              lines == split(buffer \o chunk, {LF})
              st0 == [clock |-> clock, emitted |-> emitted,
                      lastBySensor |-> lastBySensor, lastUpdate |-> lastUpdate,
                      processed |-> processed]
          IN  /\ wire' = SubSeq(wire, n + 1, Len(wire))
              /\ consumed' = consumed \o bytes
              /\ buffer' = IF chunk = <<>> THEN buffer ELSE lines[Len(lines)]
              /\ \E st \in (IF chunk = <<>> THEN {st0}
                            ELSE processLines(st0, SubSeq(lines, 1, Len(lines) - 1))) :
                    /\ clock' = st.clock
                    /\ emitted' = st.emitted
                    /\ lastBySensor' = st.lastBySensor
                    /\ lastUpdate' = st.lastUpdate
                    /\ processed' = st.processed
    /\ wpc' = "loop"
    /\ UNCHANGED <<running, serialRef, portOpen, mpc, stopCalls, statusLog,
                   finishedCount, closeCalls, failed, everRead,
                   parserVars, storeVars>>

\* line 97, called from line 88
W_CleanupCheck ==
    /\ wpc = "cleanup"
    /\ wpc' = IF serialRef # "None" THEN "close" ELSE "null"
    /\ UNCHANGED <<running, serialRef, portOpen, buffer, lastUpdate,
                   lastBySensor, wire, clock, mpc, stopCalls, emitted, statusLog,
                   finishedCount, closeCalls, processed, consumed, failed, everRead,
                   parserVars, storeVars>>

\* lines 98-101: self._serial is read again; when stop() has set it to None
\* in between, the AttributeError is swallowed and nothing is closed.
W_CleanupClose ==
    /\ wpc = "close"
    /\ IF serialRef # "None"
       THEN closeCalls' = closeCalls + 1 /\ portOpen' = FALSE
       ELSE UNCHANGED <<closeCalls, portOpen>>
    /\ wpc' = "null"
    /\ UNCHANGED <<running, serialRef, buffer, lastUpdate, lastBySensor,
                   wire, clock, mpc, stopCalls, emitted, statusLog, finishedCount,
                   processed, consumed, failed, everRead,
                   parserVars, storeVars>>

\* line 102
W_CleanupNull ==
    /\ wpc = "null"
    /\ serialRef' = "None"
    /\ wpc' = "finish"
    /\ UNCHANGED <<running, portOpen, buffer, lastUpdate, lastBySensor,
                   wire, clock, mpc, stopCalls, emitted, statusLog, finishedCount,
                   closeCalls, processed, consumed, failed, everRead,
                   parserVars, storeVars>>

\* line 89
W_Finish ==
    /\ wpc = "finish"
    /\ finishedCount' = finishedCount + 1
    /\ wpc' = "done"
    /\ UNCHANGED <<running, serialRef, portOpen, buffer, lastUpdate,
                   lastBySensor, wire, clock, mpc, stopCalls, emitted, statusLog,
                   closeCalls, processed, consumed, failed, everRead,
                   parserVars, storeVars>>

\* ---- the GUI thread

\* line 93, entered from closeEvent, line 486
M_Stop ==
    /\ mpc = "idle"
    /\ stopCalls < MaxStops
    /\ running' = FALSE
    /\ stopCalls' = stopCalls + 1
    /\ mpc' = "cleanup"
    /\ UNCHANGED <<wpc, serialRef, portOpen, buffer, lastUpdate,
                   lastBySensor, wire, clock, emitted, statusLog, finishedCount,
                   closeCalls, processed, consumed, failed, everRead,
                   parserVars, storeVars>>

\* line 97, called from line 94
M_CleanupCheck ==
    /\ mpc = "cleanup"
    /\ mpc' = IF serialRef # "None" THEN "close" ELSE "null"
    /\ UNCHANGED <<wpc, running, serialRef, portOpen, buffer, lastUpdate,
                   lastBySensor, wire, clock, stopCalls, emitted, statusLog,
                   finishedCount, closeCalls, processed, consumed, failed, everRead,
                   parserVars, storeVars>>

\* lines 98-101
M_CleanupClose ==
    /\ mpc = "close"
    /\ IF serialRef # "None"
       THEN closeCalls' = closeCalls + 1 /\ portOpen' = FALSE
       ELSE UNCHANGED <<closeCalls, portOpen>>
    /\ mpc' = "null"
    /\ UNCHANGED <<wpc, running, serialRef, buffer, lastUpdate,
                   lastBySensor, wire, clock, stopCalls, emitted, statusLog,
                   finishedCount, processed, consumed, failed, everRead,
                   parserVars, storeVars>>

\* line 102
M_CleanupNull ==
    /\ mpc = "null"
    /\ serialRef' = "None"
    /\ mpc' = "idle"
    /\ UNCHANGED <<wpc, running, portOpen, buffer, lastUpdate,
                   lastBySensor, wire, clock, stopCalls, emitted, statusLog,
                   finishedCount, closeCalls, processed, consumed, failed, everRead,
                   parserVars, storeVars>>

WorkerStep ==
    \/ W_Begin
    \/ W_OpenOk
    \/ W_OpenFail
    \/ W_ResetFail
    \/ W_LoopCheck
    \/ W_ReadFail
    \/ W_Read
    \/ W_CleanupCheck
    \/ W_CleanupClose
    \/ W_CleanupNull
    \/ W_Finish

GuiStep == M_Stop \/ M_CleanupCheck \/ M_CleanupClose \/ M_CleanupNull

Init == ReaderInit(StreamsOf(ShortLines))

Next == WorkerStep \/ GuiStep

\* Both threads, on short streams.
Spec == Init /\ [][Next]_vars

FairSpec == Spec /\ WF_vars(WorkerStep)

\* The worker thread alone, on every stream: the window is not closed while
\* the device sends.  stop() writes self._running and self._serial only,
\* and the worker reads them at lines 61 and 64 only: what a run with
\* stop() does to the lines is what a run without it does up to some read,
\* the next read failing or the loop ending.
ReadLoopInit == ReaderInit(StreamsOf(WireLines))

ReadLoopNext == WorkerStep

ReadLoopSpec == ReadLoopInit /\ [][ReadLoopNext]_vars

-----------------------------------------------------------------------------
(* Properties of the read loop                                             *)

HasUpdates(i) == processed[i].updates # <<>>

\* lastEmitTime when line i is processed: the time of the last line before
\* it that was forwarded, 0 when there is none.
LastForwardTime(i) ==
    IF \E j \in 1..(i - 1) : processed[j].forwarded
    THEN processed[CHOOSE j \in 1..(i - 1) :
                      /\ processed[j].forwarded
                      /\ \A k \in (j + 1)..(i - 1) : ~ processed[k].forwarded].now
    ELSE 0

ForwardGapsAtLeastInterval ==
    \A i, j \in 1..Len(processed) :
        (i < j /\ processed[i].forwarded /\ processed[j].forwarded)
            => processed[j].now - processed[i].now >= _update_interval

\* C2, as amended: the times at which lines are forwarded are at least
\* _update_interval apart; a line for which the parser returns an update is
\* forwarded if and only if now - lastEmitTime >= _update_interval when it is
\* processed, the first such line always; a line without an update is not
\* forwarded.
C2_RateLimiterSpacing ==
    /\ ForwardGapsAtLeastInterval
    /\ \A i \in 1..Len(processed) :
          /\ HasUpdates(i) =>
                (processed[i].forwarded <=>
                    processed[i].now - LastForwardTime(i) >= _update_interval)
          /\ ~ HasUpdates(i) => ~ processed[i].forwarded
          /\ (HasUpdates(i) /\ \A j \in 1..(i - 1) : ~ HasUpdates(j))
                => processed[i].forwarded

\* C2, as stated: every line is forwarded if and only if
\* now - lastEmitTime >= _update_interval when it is processed, and the very
\* first non-empty line is always forwarded.
C2_AsStated ==
    /\ ForwardGapsAtLeastInterval
    /\ \A i \in 1..Len(processed) :
          processed[i].forwarded <=>
              processed[i].now - LastForwardTime(i) >= _update_interval
    /\ processed # <<>> => processed[1].forwarded

\* Two lines with updates, the second exactly _update_interval after the
\* first: both are forwarded.
C2_Witness ==
    /\ Len(processed) = 2
    /\ HasUpdates(1) /\ processed[1].forwarded
    /\ HasUpdates(2) /\ processed[2].forwarded
    /\ processed[2].now - processed[1].now = _update_interval

RECURSIVE ForwardedUpdates(_)
ForwardedUpdates(ps) ==
    IF ps = <<>> THEN <<>>
    ELSE (IF Head(ps).forwarded THEN Head(ps).updates ELSE <<>>)
         \o ForwardedUpdates(Tail(ps))

\* C5: the sampleReceived signals are, line after line, all the updates the
\* parser returned for each forwarded line, in the parser's order, and
\* nothing else: a line that was dropped contributes no signal at all, then
\* or later.
C5_WholeLineForwarding ==
    /\ emitted = ForwardedUpdates(processed)
    /\ \A i \in 1..Len(processed) :
          processed[i].updates = _parse_line_multi(processed[i].text)

C5_Witness ==
    /\ Len(processed) = 2
    /\ Len(processed[1].updates) = 2 /\ processed[1].forwarded
    /\ Len(processed[2].updates) = 2 /\ ~ processed[2].forwarded
    /\ emitted = processed[1].updates
    /\ emitted[1].idx = 1 /\ emitted[2].idx = 0

\* self._last_update as line i finds it, and as the last line leaves it.
LastUpdateSeenBy(i) ==
    IF i <= Len(processed) THEN processed[i].last ELSE lastUpdate

\* C10: self._last_update changes only when a line is forwarded: each line
\* finds in it the time of the last forwarded line before it (0 when there
\* is none), whatever blank lines, lines without updates and dropped lines
\* came in between, and none of these emits a signal.
C10_LastUpdateFrame ==
    /\ \A i \in 1..(Len(processed) + 1) : LastUpdateSeenBy(i) = LastForwardTime(i)
    /\ \A i \in 1..Len(processed) : ~ HasUpdates(i) => ~ processed[i].forwarded
    /\ Len(emitted) = Len(ForwardedUpdates(processed))

\* A forwarded line, then a line dropped at a later time: self._last_update
\* is still the time of the first.
C10_Witness ==
    /\ Len(processed) = 2
    /\ processed[1].forwarded
    /\ HasUpdates(2) /\ ~ processed[2].forwarded
    /\ processed[2].now > processed[1].now
    /\ lastUpdate = processed[1].now
    /\ wire = <<>>

\* The lines of a text that a line feed ends, trimmed, the empty ones left
\* out, and what follows the last line feed.
CompleteLines(text) ==
    LET ls == split(text, {LF})
    IN  SelectNonEmpty([i \in 1..(Len(ls) - 1) |-> strip(ls[i])])

TrailingFragment(text) ==
    LET ls == split(text, {LF}) IN ls[Len(ls)]

\* C9: however the bytes read so far were cut into chunks, the lines handed
\* to the parser are the complete lines of the bytes taken as one stream,
\* each once and in order, and the accumulator holds what follows the last
\* line feed (looked at when the bytes read so far end with a whole
\* character).
C9_ChunkingIndependence ==
    (consumed = <<>> \/ consumed[Len(consumed)] # "C3") =>
        /\ [i \in 1..Len(processed) |-> processed[i].text]
              = CompleteLines(decode(consumed))
        /\ wpc \in {"loop", "read"} => buffer = TrailingFragment(decode(consumed))

-----------------------------------------------------------------------------
(* Properties of the life of the reader                                    *)

Connected == \E i \in 1..Len(statusLog) : statusLog[i] = "Connected"

\* C3: a port that was opened is closed by one call of close(), no more at
\* any time and no less once start() has returned and no stop() is under
\* way.
C3_CloseExactlyOnce ==
    /\ closeCalls <= 1
    /\ (Connected /\ wpc = "done" /\ mpc = "idle") => closeCalls = 1

\* C4: a stop() called at any time after the thread was started leads to
\* start() returning, the worker being scheduled fairly.
C4_StopHonoured == (stopCalls > 0) ~> (wpc = "done")

\* How far start() has got.
Rank(pc) ==
    CASE pc = "start" -> 0 [] pc = "open" -> 1 [] pc = "loop" -> 2
      [] pc = "read" -> 3 [] pc = "cleanup" -> 4 [] pc = "close" -> 5
      [] pc = "null" -> 6 [] pc = "finish" -> 7 [] pc = "done" -> 8

HasStatus(prefix) ==
    \E i \in 1..Len(statusLog) : statusLog[i] = prefix

\* C6: once the open or a read has failed, a status message is out, no
\* sample is emitted any more, start() never goes back to opening or
\* reading, and it goes on (it always has a next step) until it has
\* returned, with finished emitted once; after a failed open it has
\* returned at once, the read loop never entered.
C6_FailuresTerminate ==
    /\ [][failed # "no" =>
             /\ emitted' = emitted
             /\ failed' = failed
             /\ wpc' \notin {"start", "open", "loop", "read"}
             /\ Rank(wpc') >= Rank(wpc)
             /\ Len(statusLog') = Len(statusLog)]_vars
    /\ [](failed = "open" =>
             /\ HasStatus("ERROR: Could not open")
             /\ wpc = "done"
             /\ finishedCount = 1
             /\ ~ everRead)
    /\ [](failed = "read" =>
             /\ HasStatus("Serial read error")
             /\ everRead
             /\ wpc \in {"cleanup", "close", "null", "finish", "done"}
             /\ finishedCount = (IF wpc = "done" THEN 1 ELSE 0)
             /\ wpc # "done" => ENABLED WorkerStep)

C6_Witness ==
    /\ failed = "read"
    /\ wpc = "done"
    /\ finishedCount = 1
    /\ emitted # <<>>
    /\ stopCalls = 0

=============================================================================
